---- MODULE Spec2Model ----
(***************************************************************************)
(* A model of api-documenter's CustomHtmlEmitter: the recursive tree walk  *)
(* of writeNode over a document tree, with its call stack made explicit    *)
(* (one frame per active writeNode call), the emitter context (writer,     *)
(* boldRequested, italicRequested, insideTable) and the console the        *)
(* warnings go to.                                                         *)
(*                                                                         *)
(* Text is a sequence of tokens.  A character of document text is a        *)
(* one-character string; a piece of markup that the emitter writes as a    *)
(* literal ("<th>", "</thead>", ...) is one token.                         *)
(***************************************************************************)
EXTENDS Integers, Sequences, FiniteSets, TLC

VARIABLES
    phase,      \* "idle" | "rendering" | "done": where the emit() call is
    doc,        \* the document tree handed to emit() (immutable during a pass)
    stack,      \* the active writeNode calls, outermost first
    context,    \* IMarkdownEmitterContext: writer and the transient flags
    console,    \* what console.log has received (the warning channel)
    output      \* the string emit() returned

vars == <<phase, doc, stack, context, console, output>>

(***************************************************************************)
(* Bounds of the document trees that are rendered.                         *)
(***************************************************************************)
MaxDepth == 3       \* nesting depth of EmphasisSpan nodes
MaxCols  == 2       \* cells in a table header or row
MaxRows  == 2       \* data rows in a table
MaxLevel == 6       \* heading levels 1..MaxLevel

(***************************************************************************)
(* Characters.                                                             *)
(***************************************************************************)
NL  == "\n"
TAB == "\t"
SP  == " "

\* what the regular expression class \s matches, among the characters used
WhiteSpace == {SP, TAB, NL}

\* the characters document text is made of
TextChars == {"a", "b", "u", "F", "1", "2", "3", "*", ".", SP, TAB, NL}

\* the other one-character tokens the emitter writes
PunctChars == {"\\", "[", "]", "(", ")", "/"}

\* The last character of a token: a one-character token is itself, the
\* literal that opens an href ends with its quote, and every other literal
\* is a tag, which ends with ">".
LastCharOf(tok) ==
    IF tok \in TextChars \cup PunctChars THEN tok
    ELSE IF tok = "<a href=\"" THEN "\""
    ELSE ">"

(***************************************************************************)
(* Document nodes (tsdoc DocNode and the custom nodes).                    *)
(***************************************************************************)
PlainText(text)            == [kind |-> "PlainText", text |-> text]
SoftBreak                  == [kind |-> "SoftBreak"]
CodeSpan(code)             == [kind |-> "CodeSpan", code |-> code]
FencedCode(code)           == [kind |-> "FencedCode", code |-> code]
Section(nodes)             == [kind |-> "Section", nodes |-> nodes]
Heading(level, title)      == [kind |-> "Heading", level |-> level, title |-> title]
NoteBox(content)           == [kind |-> "NoteBox", content |-> content]
EmphasisSpan(bold, italic, nodes) ==
    [kind |-> "EmphasisSpan", bold |-> bold, italic |-> italic, nodes |-> nodes]

\* DocTable: header is optional (hasHeader = FALSE is `docTable.header`
\* undefined); header and every row are sequences of cells, a cell being its
\* content node (DocTableCell.content, a Section).
Table(hasHeader, header, rows) ==
    [kind |-> "Table", hasHeader |-> hasHeader, header |-> header, rows |-> rows]

\* DocLinkTag.linkText is string | undefined
Undefined   == [defined |-> FALSE, value |-> <<>>]
Defined(s)  == [defined |-> TRUE, value |-> s]

LinkTagUrl(urlDestination, linkText) ==
    [kind |-> "LinkTag", dest |-> "url", urlDestination |-> urlDestination,
     codeDestination |-> "", linkText |-> linkText]
LinkTagCode(codeDestination, linkText) ==
    [kind |-> "LinkTag", dest |-> "code", urlDestination |-> <<>>,
     codeDestination |-> codeDestination, linkText |-> linkText]

(***************************************************************************)
(* IndentedWriter.                                                         *)
(***************************************************************************)
NewWriter == [buf |-> <<>>, atStartOfLine |-> TRUE, indentLevel |-> 0]

RECURSIVE IndentText(_)
IndentText(level) == IF level = 0 THEN <<>> ELSE <<SP>> \o IndentText(level - 1)

peekLastCharacter(w) ==
    IF w.buf = <<>> THEN "" ELSE LastCharOf(w.buf[Len(w.buf)])

peekSecondLastCharacter(w) ==
    IF Len(w.buf) < 2 THEN "" ELSE LastCharOf(w.buf[Len(w.buf) - 1])

writeNewLine(w) == [w EXCEPT !.buf = Append(@, NL), !.atStartOfLine = TRUE]

writeLinePart(w, tok) ==
    [w EXCEPT !.buf = (IF w.atStartOfLine THEN @ \o IndentText(w.indentLevel) ELSE @)
                          \o <<tok>>,
              !.atStartOfLine = FALSE]

\* write(message): the parts between line breaks, each line break a new line
RECURSIVE write(_, _)
write(w, message) ==
    IF message = <<>> THEN w
    ELSE write(IF Head(message) = NL THEN writeNewLine(w)
                                     ELSE writeLinePart(w, Head(message)),
               Tail(message))

writeLine(w, message) == writeNewLine(write(w, message))

ensureNewLine(w) ==
    IF peekLastCharacter(w) \notin {NL, ""} THEN writeNewLine(w) ELSE w

ensureSkippedLine(w) ==
    LET w1 == IF peekLastCharacter(w) # NL THEN writeNewLine(w) ELSE w
    IN  IF peekSecondLastCharacter(w1) \notin {NL, ""} THEN writeNewLine(w1) ELSE w1

increaseIndent(w) == [w EXCEPT !.indentLevel = @ + 1]
decreaseIndent(w) == [w EXCEPT !.indentLevel = @ - 1]

(***************************************************************************)
(* String helpers of the emitters.                                         *)
(***************************************************************************)
\* characters with a meaning in the output syntax
SyntaxChars == {"*", "\\", "["}

\* MarkdownEmitter.getEscapedText: syntax characters are backslash-escaped
RECURSIVE getEscapedText(_)
getEscapedText(text) ==
    IF text = <<>> THEN <<>>
    ELSE (IF Head(text) \in SyntaxChars THEN <<"\\", Head(text)>> ELSE <<Head(text)>>)
         \o getEscapedText(Tail(text))

\* text.replace(/\s+/g, ' '): every run of whitespace becomes one space
RECURSIVE CollapseWhitespace(_)
CollapseWhitespace(text) ==
    IF text = <<>> THEN <<>>
    ELSE IF Head(text) \in WhiteSpace
         THEN IF Tail(text) # <<>> /\ Head(Tail(text)) \in WhiteSpace
              THEN CollapseWhitespace(Tail(text))
              ELSE <<SP>> \o CollapseWhitespace(Tail(text))
         ELSE <<Head(text)>> \o CollapseWhitespace(Tail(text))

\* String.prototype.trim
RECURSIVE TrimStart(_)
TrimStart(text) ==
    IF text # <<>> /\ Head(text) \in WhiteSpace THEN TrimStart(Tail(text)) ELSE text

RECURSIVE TrimEnd(_)
TrimEnd(text) ==
    IF text # <<>> /\ text[Len(text)] \in WhiteSpace
    THEN TrimEnd(SubSeq(text, 1, Len(text) - 1)) ELSE text

Trim(text) == TrimEnd(TrimStart(text))

(***************************************************************************)
(* The API model and the emitter options (the collaborators of the link    *)
(* writer).  Four declaration references are known:                        *)
(*   pkg#Foo      resolves to an item that has an output file              *)
(*   pkg#Out      resolves to an item outside the documented set           *)
(*   pkg#         resolves to the package itself, whose scoped name is ""  *)
(*   pkg#Missing  does not resolve                                         *)
(* A result holds a resolved item or an error message, never both and      *)
(* never neither.                                                          *)
(***************************************************************************)
NoItem == "undefined"
NoMessage == "undefined"

DeclarationReference(packageName, memberName) ==
    [packageName |-> packageName, memberName |-> memberName]

RefFoo     == DeclarationReference("pkg", "Foo")
RefOut     == DeclarationReference("pkg", "Out")
RefPackage == DeclarationReference("pkg", "")
RefMissing == DeclarationReference("pkg", "Missing")

References == {RefFoo, RefOut, RefPackage, RefMissing}

\* DocDeclarationReference.emitAsTsdoc
emitAsTsdoc(ref) == ref.packageName \o "#" \o ref.memberName

\* ApiModel.resolveDeclarationReference: a resolved item or an error message
resolveDeclarationReference(ref) ==
    IF ref = RefFoo THEN [resolvedApiItem |-> "Foo", errorMessage |-> NoMessage]
    ELSE IF ref = RefOut THEN [resolvedApiItem |-> "Out", errorMessage |-> NoMessage]
    ELSE IF ref = RefPackage THEN [resolvedApiItem |-> "pkg", errorMessage |-> NoMessage]
    ELSE [resolvedApiItem |-> NoItem,
          errorMessage |-> "The member reference \"" \o ref.memberName \o "\" was not found"]

\* ApiItem.getScopedNameWithinPackage
getScopedNameWithinPackage(apiItem) ==
    IF apiItem = "Foo" THEN <<"F">>
    ELSE IF apiItem = "Out" THEN <<"u">>
    ELSE <<>>

\* options.onGetFilenameForApiItem: string | undefined
onGetFilenameForApiItem(apiItem) ==
    IF apiItem = "Foo" THEN Defined(<<".", "/", "F">>)
    ELSE IF apiItem = "pkg" THEN Defined(<<".", "/", "a">>)
    ELSE Undefined

\* colors.yellow(text), as console.log receives it
Yellow(text) == [color |-> "yellow", text |-> text]

(***************************************************************************)
(* CustomHtmlEmitter.writeLinkTagWithUrlDestination: the writer after it.  *)
(***************************************************************************)
writeLinkTagWithUrlDestination(docLinkTag, ctx) ==
    LET linkText == IF docLinkTag.linkText.defined
                    THEN docLinkTag.linkText.value
                    ELSE docLinkTag.urlDestination
        encodedLinkText == getEscapedText(CollapseWhitespace(linkText))
    IN  write(ctx.writer,
              <<"<a href=\"">> \o docLinkTag.urlDestination \o <<"\">">>
                  \o encodedLinkText \o <<"</a>">>)

(***************************************************************************)
(* Faulty variants of writeLinkTagWithCodeDestination, which the properties *)
(* of the link writer must tell from it.                                    *)
(***************************************************************************)
\* as writeLinkTagWithCodeDestination, but an unresolved reference is not reported
writeLinkTagWithCodeDestination_Silent(docLinkTag, ctx, con) ==
    LET result == resolveDeclarationReference(docLinkTag.codeDestination)
    IN  IF result.resolvedApiItem # NoItem
        THEN LET filename == onGetFilenameForApiItem(result.resolvedApiItem)
             IN  IF filename.defined /\ filename.value # <<>>
                 THEN LET linkText0 == IF docLinkTag.linkText.defined
                                       THEN docLinkTag.linkText.value ELSE <<>>
                          linkText == IF Len(linkText0) = 0
                                      THEN getScopedNameWithinPackage(result.resolvedApiItem)
                                      ELSE linkText0
                      IN  IF Len(linkText) > 0
                          THEN LET encodedLinkText ==
                                       getEscapedText(CollapseWhitespace(linkText))
                                   w1 == write(ctx.writer, <<"[">>)
                                   w2 == write(w1, encodedLinkText)
                                   w3 == write(w2, <<"]", "(">> \o filename.value \o <<")">>)
                               IN  [writer |-> w3, console |-> con]
                          ELSE [writer |-> ctx.writer,
                                console |-> Append(con,
                                    Yellow("WARNING: Unable to determine link text"))]
                 ELSE [writer |-> ctx.writer, console |-> con]
        ELSE IF result.errorMessage # NoMessage /\ result.errorMessage # ""
        THEN [writer |-> ctx.writer, console |-> con]
        ELSE [writer |-> ctx.writer, console |-> con]

\* as writeLinkTagWithCodeDestination, but without the test `if (filename)`
writeLinkTagWithCodeDestination_AnyFilename(docLinkTag, ctx, con) ==
    LET result == resolveDeclarationReference(docLinkTag.codeDestination)
    IN  IF result.resolvedApiItem # NoItem
        THEN LET filename == onGetFilenameForApiItem(result.resolvedApiItem)
             IN  IF TRUE
                 THEN LET linkText0 == IF docLinkTag.linkText.defined
                                       THEN docLinkTag.linkText.value ELSE <<>>
                          linkText == IF Len(linkText0) = 0
                                      THEN getScopedNameWithinPackage(result.resolvedApiItem)
                                      ELSE linkText0
                      IN  IF Len(linkText) > 0
                          THEN LET encodedLinkText ==
                                       getEscapedText(CollapseWhitespace(linkText))
                                   w1 == write(ctx.writer, <<"[">>)
                                   w2 == write(w1, encodedLinkText)
                                   w3 == write(w2, <<"]", "(">> \o filename.value \o <<")">>)
                               IN  [writer |-> w3, console |-> con]
                          ELSE [writer |-> ctx.writer,
                                console |-> Append(con,
                                    Yellow("WARNING: Unable to determine link text"))]
                 ELSE [writer |-> ctx.writer, console |-> con]
        ELSE IF result.errorMessage # NoMessage /\ result.errorMessage # ""
        THEN [writer |-> ctx.writer,
              console |-> Append(con,
                  Yellow("WARNING: Unable to resolve reference \""
                         \o emitAsTsdoc(docLinkTag.codeDestination) \o "\": "
                         \o result.errorMessage))]
        ELSE [writer |-> ctx.writer, console |-> con]

\* as writeLinkTagWithCodeDestination, but the link text is trimmed before it is
\* tested for being empty
writeLinkTagWithCodeDestination_Trimmed(docLinkTag, ctx, con) ==
    LET result == resolveDeclarationReference(docLinkTag.codeDestination)
    IN  IF result.resolvedApiItem # NoItem
        THEN LET filename == onGetFilenameForApiItem(result.resolvedApiItem)
             IN  IF filename.defined /\ filename.value # <<>>
                 THEN LET linkText0 == IF docLinkTag.linkText.defined
                                       THEN docLinkTag.linkText.value ELSE <<>>
                          linkText == IF Len(linkText0) = 0
                                      THEN getScopedNameWithinPackage(result.resolvedApiItem)
                                      ELSE linkText0
                      IN  IF Len(Trim(linkText)) > 0
                          THEN LET encodedLinkText ==
                                       getEscapedText(CollapseWhitespace(linkText))
                                   w1 == write(ctx.writer, <<"[">>)
                                   w2 == write(w1, encodedLinkText)
                                   w3 == write(w2, <<"]", "(">> \o filename.value \o <<")">>)
                               IN  [writer |-> w3, console |-> con]
                          ELSE [writer |-> ctx.writer,
                                console |-> Append(con,
                                    Yellow("WARNING: Unable to determine link text"))]
                 ELSE [writer |-> ctx.writer, console |-> con]
        ELSE IF result.errorMessage # NoMessage /\ result.errorMessage # ""
        THEN [writer |-> ctx.writer,
              console |-> Append(con,
                  Yellow("WARNING: Unable to resolve reference \""
                         \o emitAsTsdoc(docLinkTag.codeDestination) \o "\": "
                         \o result.errorMessage))]
        ELSE [writer |-> ctx.writer, console |-> con]

(***************************************************************************)
(* CustomHtmlEmitter.writeLinkTagWithCodeDestination: the writer and the   *)
(* console after it.                                                       *)
(***************************************************************************)
writeLinkTagWithCodeDestination(docLinkTag, ctx, con) ==
    LET result == resolveDeclarationReference(docLinkTag.codeDestination)
    IN  IF result.resolvedApiItem # NoItem
        THEN LET filename == onGetFilenameForApiItem(result.resolvedApiItem)
             IN  IF filename.defined /\ filename.value # <<>>
                 THEN LET linkText0 == IF docLinkTag.linkText.defined
                                       THEN docLinkTag.linkText.value ELSE <<>>
                          linkText == IF Len(linkText0) = 0
                                      THEN getScopedNameWithinPackage(result.resolvedApiItem)
                                      ELSE linkText0
                      IN  IF Len(linkText) > 0
                          THEN LET encodedLinkText ==
                                       getEscapedText(CollapseWhitespace(linkText))
                                   w1 == write(ctx.writer, <<"[">>)
                                   w2 == write(w1, encodedLinkText)
                                   w3 == write(w2, <<"]", "(">> \o filename.value \o <<")">>)
                               IN  [writer |-> w3, console |-> con]
                          ELSE [writer |-> ctx.writer,
                                console |-> Append(con,
                                    Yellow("WARNING: Unable to determine link text"))]
                 ELSE [writer |-> ctx.writer, console |-> con]
        ELSE IF result.errorMessage # NoMessage /\ result.errorMessage # ""
        THEN [writer |-> ctx.writer,
              console |-> Append(con,
                  Yellow("WARNING: Unable to resolve reference \""
                         \o emitAsTsdoc(docLinkTag.codeDestination) \o "\": "
                         \o result.errorMessage))]
        ELSE [writer |-> ctx.writer, console |-> con]

(***************************************************************************)
(* CustomHtmlEmitter.writeNode, the pure parts.                            *)
(***************************************************************************)
\* a faulty HeadingTag: every level is offset by one, level 3 gives h4
HeadingTag_OffByOne(level) ==
    CASE level = 1 -> "h2"
      [] level = 2 -> "h3"
      [] OTHER     -> "h4"

\* Heading: the tag of a level
HeadingTag(level) ==
    CASE level = 1 -> "h2"
      [] level = 2 -> "h3"
      [] level = 3 -> "h3"
      [] OTHER     -> "h4"

HeadingLine(docHeading) ==
    LET tag == HeadingTag(docHeading.level)
    IN  <<"<" \o tag \o " class=\"doc-heading\">">>
            \o getEscapedText(docHeading.title)
            \o <<"</" \o tag \o ">">>

\* Table: the loop over the rows that sizes the table by the longest row
RECURSIVE LongestRow(_, _)
LongestRow(rows, columnCount) ==
    IF rows = <<>> THEN columnCount
    ELSE LongestRow(Tail(rows),
                    IF Len(Head(rows)) > columnCount THEN Len(Head(rows))
                                                     ELSE columnCount)

\* a faulty ColumnCount: the rows are looked at only when there is no header
ColumnCount_HeaderWins(docTable) ==
    IF docTable.hasHeader THEN Len(docTable.header) ELSE LongestRow(docTable.rows, 0)

ColumnCount(docTable) ==
    LongestRow(docTable.rows, IF docTable.hasHeader THEN Len(docTable.header) ELSE 0)

\* a faulty header loop: it runs over the cells the header has
HeaderLoopContinues_HeaderCells(f) == f.i < Len(f.node.header)

\* Table: the header loop runs while i < columnCount (i counts from 0)
HeaderLoopContinues(f) == f.i < f.columnCount

\* Table: `docTable.header && docTable.header.cells[i]` is a cell
HasHeaderCell(docTable, i) == docTable.hasHeader /\ i + 1 <= Len(docTable.header)

\* a faulty RestoreEmphasis: the flags are cleared, not put back
RestoreEmphasis_Cleared(ctx, f) ==
    [ctx EXCEPT !.boldRequested = FALSE, !.italicRequested = FALSE]

\* EmphasisSpan: the flags put back after the children
RestoreEmphasis(ctx, f) ==
    [ctx EXCEPT !.boldRequested = f.oldBold, !.italicRequested = f.oldItalic]

\* a faulty NeedsBreak, /^\s$/: nothing written yet counts as text
NeedsBreak_EmptyIsText(w) == ~ (peekLastCharacter(w) \in WhiteSpace)

\* SoftBreak: !/^\s?$/.test(writer.peekLastCharacter())
NeedsBreak(w) ==
    ~ (peekLastCharacter(w) = "" \/ peekLastCharacter(w) \in WhiteSpace)

\* MarkdownEmitter.writePlainText: the escaped text inside the emphasis
\* markers the context asks for
writePlainText(text, ctx) ==
    IF text = <<>> THEN ctx.writer
    ELSE write(ctx.writer,
               (IF ctx.boldRequested THEN <<"<b>">> ELSE <<>>)
                   \o (IF ctx.italicRequested THEN <<"<i>">> ELSE <<>>)
                   \o getEscapedText(text)
                   \o (IF ctx.italicRequested THEN <<"</i>">> ELSE <<>>)
                   \o (IF ctx.boldRequested THEN <<"</b>">> ELSE <<>>))

(***************************************************************************)
(* The call stack of writeNode.  A frame is one active call: its node, the *)
(* place the call has reached and its locals (the loop counters i and r,   *)
(* columnCount, oldBold, oldItalic).                                       *)
(***************************************************************************)
NewFrame(docNode) ==
    [node |-> docNode, pc |-> "start", i |-> 0, r |-> 0, columnCount |-> 0,
     oldBold |-> FALSE, oldItalic |-> FALSE]

Top == stack[Len(stack)]

Running == phase = "rendering" /\ stack # <<>>

\* the call on top returns
Return == SubSeq(stack, 1, Len(stack) - 1)

\* the call on top goes on as frame f
Continue(f) == [stack EXCEPT ![Len(stack)] = f]

\* the call on top, going on as frame f, calls writeNode(docNode, ...)
Call(f, docNode) == Append(Continue(f), NewFrame(docNode))

NewContext ==
    [writer |-> NewWriter, insideTable |-> FALSE,
     boldRequested |-> FALSE, italicRequested |-> FALSE]

NoDocument == [kind |-> "None"]

(***************************************************************************)
(* The documents that are rendered.                                        *)
(***************************************************************************)
TextA == <<"a">>
TextB == <<"b">>

\* a table cell (its content) holding one run of text
Cell(text) == Section(<<PlainText(text)>>)

\* header cells carry "1", "2", ... and data cells carry "a"
HeaderDigit == <<"1", "2", "3">>
HeaderCells(n) == [k \in 1..n |-> Cell(<<HeaderDigit[k]>>)]
RowOfLen(n) == [k \in 1..n |-> Cell(TextA)]
Rows(lens) == [k \in 1..Len(lens) |-> RowOfLen(lens[k])]

\* the cell counts of the rows of a table: up to MaxRows rows of 0..MaxCols cells
RowShapes == UNION {[1..m -> 0..MaxCols] : m \in 0..MaxRows}

\* every flat table: no header or a header of 0..MaxCols cells, any row shape
TableDocs ==
    {Table(FALSE, <<>>, Rows(lens)) : lens \in RowShapes}
    \cup {Table(TRUE, HeaderCells(h), Rows(lens)) : h \in 0..MaxCols, lens \in RowShapes}

InnerTable == Table(TRUE, HeaderCells(1), <<RowOfLen(1)>>)

\* tables inside table cells and inside other containers
NestedTableDocs ==
    { Table(FALSE, <<>>, << <<Section(<<InnerTable>>), Cell(TextB)>> >>),
      Table(TRUE, <<Section(<<InnerTable>>), Cell(<<"2">>)>>, <<RowOfLen(1)>>),
      Table(FALSE, <<>>, << <<Section(<<InnerTable>>)>>, RowOfLen(2)>>),
      Table(TRUE, HeaderCells(1),
            << <<Section(<<PlainText(TextA), InnerTable, PlainText(TextB)>>)>> >>),
      Table(FALSE, <<>>,
            << <<Section(<<EmphasisSpan(TRUE, TRUE, <<PlainText(TextA)>>), SoftBreak>>),
                 Section(<<SoftBreak>>)>> >>),
      Section(<<PlainText(TextA), InnerTable, PlainText(TextB)>>),
      EmphasisSpan(TRUE, FALSE, <<InnerTable, PlainText(TextB)>>),
      NoteBox(Section(<<InnerTable>>)) }

\* EmphasisSpan nodes nested to the given depth, text before and after the
\* nested span
RECURSIVE EmphasisDocs(_)
EmphasisDocs(depth) ==
    IF depth = 0 THEN {PlainText(TextA)}
    ELSE LET inner == EmphasisDocs(depth - 1)
         IN  inner \cup
             {EmphasisSpan(b, i, <<PlainText(TextA), n, PlainText(TextB)>>) :
                  b \in BOOLEAN, i \in BOOLEAN, n \in inner}

HeadingDocs ==
    {Heading(l, t) : l \in 1..MaxLevel, t \in {TextA, <<"a", "*">>, <<>>}}
    \cup {Section(<<PlainText(TextA), Heading(1, TextA), Heading(4, TextB)>>)}

\* what may have been written before a soft break
BeforeBreak ==
    { PlainText(TextA), PlainText(<<"a", SP>>), PlainText(<<"a", TAB>>),
      PlainText(<<"a", NL>>), PlainText(<<SP>>), PlainText(<<>>),
      CodeSpan(TextA), CodeSpan(<<"a", SP>>), CodeSpan(<<>>),
      FencedCode(<<SP, "a", NL>>), Heading(2, TextA), SoftBreak,
      EmphasisSpan(TRUE, FALSE, <<PlainText(TextA)>>),
      LinkTagUrl(<<"u">>, Undefined) }

SoftBreakDocs ==
    {Section(<<x, SoftBreak>>) : x \in BeforeBreak}
    \cup {Section(<<x, SoftBreak, SoftBreak, PlainText(TextB)>>) : x \in BeforeBreak}
    \cup { SoftBreak,
           NoteBox(Section(<<SoftBreak, PlainText(TextA), SoftBreak>>)),
           NoteBox(Section(<<PlainText(<<"a", NL>>), SoftBreak>>)) }

LinkTexts ==
    { Undefined, Defined(<<>>), Defined(<<SP>>), Defined(<<TAB, NL>>),
      Defined(TextA), Defined(<<"a", SP, NL, "b">>), Defined(<<SP, "*", SP, SP>>) }

Urls == { <<"u", ".", "a">>, <<"u">> }

LinkDocs ==
    {LinkTagCode(ref, t) : ref \in References, t \in LinkTexts}
    \cup {Section(<<PlainText(TextA), LinkTagCode(ref, t), PlainText(TextB)>>) :
              ref \in References, t \in LinkTexts}
    \cup {LinkTagUrl(u, t) : u \in Urls, t \in LinkTexts}
    \cup {Section(<<PlainText(<<"a", SP>>), LinkTagUrl(u, t), SoftBreak>>) :
              u \in Urls, t \in LinkTexts}

Documents ==
    TableDocs \cup NestedTableDocs \cup EmphasisDocs(MaxDepth) \cup HeadingDocs
        \cup SoftBreakDocs \cup LinkDocs

(***************************************************************************)
(* The state after construction: no render has started.                    *)
(***************************************************************************)
Init ==
    /\ phase = "idle"
    /\ doc = NoDocument
    /\ stack = <<>>
    /\ context = NewContext
    /\ console = <<>>
    /\ output = <<>>

(***************************************************************************)
(* emit(stringBuilder, docNode, options)                                   *)
(***************************************************************************)
Emit ==
    /\ phase = "idle"
    /\ \E d \in Documents :
          /\ doc' = d
          /\ stack' = <<NewFrame(d)>>
    /\ phase' = "rendering"
    /\ context' = NewContext
    /\ UNCHANGED <<console, output>>

\* the outermost writeNode has returned: finish the last line, return the text
EmitReturn ==
    /\ phase = "rendering"
    /\ stack = <<>>
    /\ context' = [context EXCEPT !.writer = ensureNewLine(@)]
    /\ output' = ensureNewLine(context.writer).buf
    /\ phase' = "done"
    /\ UNCHANGED <<doc, stack, console>>

(***************************************************************************)
(* writeNode, one action per step of each case of its switch.              *)
(***************************************************************************)
WriteHeading ==
    /\ Running
    /\ Top.node.kind = "Heading"
    /\ context' = [context EXCEPT
           !.writer = writeLine(writeLine(@, HeadingLine(Top.node)), <<>>)]
    /\ stack' = Return
    /\ UNCHANGED <<phase, doc, console, output>>

NoteBoxEnter ==
    /\ Running
    /\ Top.node.kind = "NoteBox"
    /\ Top.pc = "start"
    /\ context' = [context EXCEPT
           !.writer = writeLine(increaseIndent(ensureNewLine(@)), <<"<pre>">>)]
    /\ stack' = Call([Top EXCEPT !.pc = "content"], Top.node.content)
    /\ UNCHANGED <<phase, doc, console, output>>

NoteBoxExit ==
    /\ Running
    /\ Top.node.kind = "NoteBox"
    /\ Top.pc = "content"
    /\ context' = [context EXCEPT
           !.writer = writeLine(decreaseIndent(
                                    writeLine(ensureNewLine(@), <<"</pre>">>)),
                                <<>>)]
    /\ stack' = Return
    /\ UNCHANGED <<phase, doc, console, output>>

TableEnter ==
    /\ Running
    /\ Top.node.kind = "Table"
    /\ Top.pc = "start"
    /\ context' = [context EXCEPT
           !.writer = writeLine(writeLine(writeLine(ensureSkippedLine(@),
                                    <<"<table class=\"doc-table\">">>),
                                    <<"<thead>">>),
                                    <<"<tr>">>),
           !.insideTable = TRUE]
    /\ stack' = Continue([Top EXCEPT !.pc = "header", !.i = 0,
                                     !.columnCount = ColumnCount(Top.node)])
    /\ UNCHANGED <<phase, doc, console, output>>

TableHeaderCell ==
    /\ Running
    /\ Top.node.kind = "Table"
    /\ Top.pc = "header"
    /\ HeaderLoopContinues(Top)
    /\ \/ /\ HasHeaderCell(Top.node, Top.i)
          /\ context' = [context EXCEPT !.writer = write(@, <<"<th>">>)]
          /\ stack' = Call([Top EXCEPT !.pc = "headerCell"],
                           Top.node.header[Top.i + 1])
       \/ /\ ~ HasHeaderCell(Top.node, Top.i)
          /\ context' = [context EXCEPT
                 !.writer = write(write(@, <<"<th>">>), <<"</th>">>)]
          /\ stack' = Continue([Top EXCEPT !.i = @ + 1])
    /\ UNCHANGED <<phase, doc, console, output>>

TableHeaderCellClose ==
    /\ Running
    /\ Top.node.kind = "Table"
    /\ Top.pc = "headerCell"
    /\ context' = [context EXCEPT !.writer = write(@, <<"</th>">>)]
    /\ stack' = Continue([Top EXCEPT !.pc = "header", !.i = @ + 1])
    /\ UNCHANGED <<phase, doc, console, output>>

TableHeaderEnd ==
    /\ Running
    /\ Top.node.kind = "Table"
    /\ Top.pc = "header"
    /\ ~ HeaderLoopContinues(Top)
    /\ context' = [context EXCEPT
           !.writer = writeLine(writeLine(writeLine(@, <<>>), <<"</tr>">>),
                                <<"</thead>">>)]
    /\ stack' = Continue([Top EXCEPT !.pc = "rows", !.r = 0])
    /\ UNCHANGED <<phase, doc, console, output>>

TableRowStart ==
    /\ Running
    /\ Top.node.kind = "Table"
    /\ Top.pc = "rows"
    /\ Top.r < Len(Top.node.rows)
    /\ context' = [context EXCEPT !.writer = write(@, <<"<tr>">>)]
    /\ stack' = Continue([Top EXCEPT !.pc = "cells", !.i = 0])
    /\ UNCHANGED <<phase, doc, console, output>>

TableCellOpen ==
    /\ Running
    /\ Top.node.kind = "Table"
    /\ Top.pc = "cells"
    /\ Top.i < Len(Top.node.rows[Top.r + 1])
    /\ context' = [context EXCEPT !.writer = write(@, <<"<td>">>)]
    /\ stack' = Call([Top EXCEPT !.pc = "cell"],
                     Top.node.rows[Top.r + 1][Top.i + 1])
    /\ UNCHANGED <<phase, doc, console, output>>

TableCellClose ==
    /\ Running
    /\ Top.node.kind = "Table"
    /\ Top.pc = "cell"
    /\ context' = [context EXCEPT !.writer = write(@, <<"</td>">>)]
    /\ stack' = Continue([Top EXCEPT !.pc = "cells", !.i = @ + 1])
    /\ UNCHANGED <<phase, doc, console, output>>

TableRowEnd ==
    /\ Running
    /\ Top.node.kind = "Table"
    /\ Top.pc = "cells"
    /\ Top.i >= Len(Top.node.rows[Top.r + 1])
    /\ context' = [context EXCEPT
           !.writer = writeLine(writeLine(@, <<>>), <<"</tr>">>)]
    /\ stack' = Continue([Top EXCEPT !.pc = "rows", !.r = @ + 1])
    /\ UNCHANGED <<phase, doc, console, output>>

TableExit ==
    /\ Running
    /\ Top.node.kind = "Table"
    /\ Top.pc = "rows"
    /\ Top.r >= Len(Top.node.rows)
    /\ context' = [context EXCEPT
           !.writer = writeLine(@, <<"</table>">>),
           !.insideTable = FALSE]
    /\ stack' = Return
    /\ UNCHANGED <<phase, doc, console, output>>

EmphasisEnter ==
    /\ Running
    /\ Top.node.kind = "EmphasisSpan"
    /\ Top.pc = "start"
    /\ context' = [context EXCEPT !.boldRequested = Top.node.bold,
                                  !.italicRequested = Top.node.italic]
    /\ stack' = Continue([Top EXCEPT !.pc = "nodes", !.i = 0,
                                     !.oldBold = context.boldRequested,
                                     !.oldItalic = context.italicRequested])
    /\ UNCHANGED <<phase, doc, console, output>>

EmphasisExit ==
    /\ Running
    /\ Top.node.kind = "EmphasisSpan"
    /\ Top.pc = "nodes"
    /\ Top.i >= Len(Top.node.nodes)
    /\ context' = RestoreEmphasis(context, Top)
    /\ stack' = Return
    /\ UNCHANGED <<phase, doc, console, output>>

\* MarkdownEmitter.writeNode, Section: writeNodes(docSection.nodes, context)
SectionEnter ==
    /\ Running
    /\ Top.node.kind = "Section"
    /\ Top.pc = "start"
    /\ stack' = Continue([Top EXCEPT !.pc = "nodes", !.i = 0])
    /\ UNCHANGED <<phase, doc, context, console, output>>

SectionExit ==
    /\ Running
    /\ Top.node.kind = "Section"
    /\ Top.pc = "nodes"
    /\ Top.i >= Len(Top.node.nodes)
    /\ stack' = Return
    /\ UNCHANGED <<phase, doc, context, console, output>>

\* MarkdownEmitter.writeNodes: writeNode for the next of the sibling nodes
WriteNodesNext ==
    /\ Running
    /\ Top.node.kind \in {"EmphasisSpan", "Section"}
    /\ Top.pc = "nodes"
    /\ Top.i < Len(Top.node.nodes)
    /\ stack' = Call([Top EXCEPT !.i = @ + 1], Top.node.nodes[Top.i + 1])
    /\ UNCHANGED <<phase, doc, context, console, output>>

WriteCodeSpan ==
    /\ Running
    /\ Top.node.kind = "CodeSpan"
    /\ context' = [context EXCEPT
           !.writer = write(write(write(@,
                                <<"<code class=\"doc-code-span language-javascript\">">>),
                                Top.node.code),
                            <<"</code>">>)]
    /\ stack' = Return
    /\ UNCHANGED <<phase, doc, console, output>>

WriteFencedCode ==
    /\ Running
    /\ Top.node.kind = "FencedCode"
    /\ context' = [context EXCEPT
           !.writer = writeLine(writeLine(write(writeLine(writeLine(ensureNewLine(@),
                                    <<"<pre class=\"doc-fenced-code\">">>),
                                    <<"<code class=\"language-javascript\">">>),
                                    Trim(Top.node.code)),
                                    <<"</code>">>),
                                    <<"</pre>">>)]
    /\ stack' = Return
    /\ UNCHANGED <<phase, doc, console, output>>

WriteSoftBreak ==
    /\ Running
    /\ Top.node.kind = "SoftBreak"
    /\ context' = [context EXCEPT
           !.writer = IF NeedsBreak(@) THEN write(@, <<"<br />">>) ELSE @]
    /\ stack' = Return
    /\ UNCHANGED <<phase, doc, console, output>>

\* MarkdownEmitter.writeNode, PlainText
WritePlainText ==
    /\ Running
    /\ Top.node.kind = "PlainText"
    /\ context' = [context EXCEPT !.writer = writePlainText(Top.node.text, context)]
    /\ stack' = Return
    /\ UNCHANGED <<phase, doc, console, output>>

\* MarkdownEmitter.writeNode, LinkTag with a urlDestination
WriteLinkTagUrl ==
    /\ Running
    /\ Top.node.kind = "LinkTag"
    /\ Top.node.dest = "url"
    /\ context' = [context EXCEPT
           !.writer = writeLinkTagWithUrlDestination(Top.node, context)]
    /\ stack' = Return
    /\ UNCHANGED <<phase, doc, console, output>>

\* MarkdownEmitter.writeNode, LinkTag with a codeDestination
WriteLinkTagCode ==
    /\ Running
    /\ Top.node.kind = "LinkTag"
    /\ Top.node.dest = "code"
    /\ LET after == writeLinkTagWithCodeDestination(Top.node, context, console)
       IN  /\ context' = [context EXCEPT !.writer = after.writer]
           /\ console' = after.console
    /\ stack' = Return
    /\ UNCHANGED <<phase, doc, output>>

Next ==
    \/ Emit
    \/ EmitReturn
    \/ WriteHeading
    \/ NoteBoxEnter
    \/ NoteBoxExit
    \/ TableEnter
    \/ TableHeaderCell
    \/ TableHeaderCellClose
    \/ TableHeaderEnd
    \/ TableRowStart
    \/ TableCellOpen
    \/ TableCellClose
    \/ TableRowEnd
    \/ TableExit
    \/ EmphasisEnter
    \/ EmphasisExit
    \/ SectionEnter
    \/ SectionExit
    \/ WriteNodesNext
    \/ WriteCodeSpan
    \/ WriteFencedCode
    \/ WriteSoftBreak
    \/ WritePlainText
    \/ WriteLinkTagUrl
    \/ WriteLinkTagCode

Spec == Init /\ [][Next]_vars

(***************************************************************************)
(* Measures of a document tree and of rendered text, used by the           *)
(* properties below.                                                       *)
(***************************************************************************)
RECURSIVE Concat(_)
Concat(seqs) == IF seqs = <<>> THEN <<>> ELSE Head(seqs) \o Concat(Tail(seqs))

\* the nodes writeNode is called on from inside the call on docNode
ChildNodes(docNode) ==
    CASE docNode.kind \in {"Section", "EmphasisSpan"} -> docNode.nodes
      [] docNode.kind = "NoteBox" -> <<docNode.content>>
      [] docNode.kind = "Table"   -> docNode.header \o Concat(docNode.rows)
      [] OTHER -> <<>>

SetMax(S) == CHOOSE m \in S : \A x \in S : x <= m

\* max(number of header cells, or 0 without a header; the longest data row)
ExpectedColumnCount(docTable) ==
    SetMax({IF docTable.hasHeader THEN Len(docTable.header) ELSE 0}
           \cup {Len(docTable.rows[k]) : k \in 1..Len(docTable.rows)})

\* a node's own share of a measure
Own(docNode, what) ==
    IF docNode.kind # "Table" THEN 0
    ELSE CASE what = "tables"  -> 1
           [] what = "cells"   -> Len(Concat(docNode.rows))
           [] what = "columns" -> ExpectedColumnCount(docNode)

\* the measure summed over the whole tree
RECURSIVE Measure(_, _)
RECURSIVE MeasureAll(_, _)
Measure(docNode, what) == Own(docNode, what) + MeasureAll(ChildNodes(docNode), what)
MeasureAll(docNodes, what) ==
    IF docNodes = <<>> THEN 0
    ELSE Measure(Head(docNodes), what) + MeasureAll(Tail(docNodes), what)

\* how often a token occurs in a text
Count(text, tok) == Cardinality({k \in 1..Len(text) : text[k] = tok})

\* the number of "<td>" in each "<tr>" ... "</tr>" of a text, in order
RECURSIVE TdPerRow(_, _)
TdPerRow(text, n) ==
    IF text = <<>> THEN <<>>
    ELSE CASE Head(text) = "<tr>"  -> TdPerRow(Tail(text), 0)
           [] Head(text) = "</tr>" -> <<n>> \o TdPerRow(Tail(text), 0)
           [] Head(text) = "<td>"  -> TdPerRow(Tail(text), n + 1)
           [] OTHER                -> TdPerRow(Tail(text), n)

\* the first place a token stands in a text (0: nowhere)
IndexOf(text, tok) ==
    IF \E k \in 1..Len(text) : text[k] = tok
    THEN CHOOSE k \in 1..Len(text) : text[k] = tok /\ \A j \in 1..(k - 1) : text[j] # tok
    ELSE 0

\* a table on its own, with no table inside it
IsFlatTable(docNode) == docNode.kind = "Table" /\ Measure(docNode, "tables") = 1

\* the calls on the stack that are inside an EmphasisSpan's / a Table's body
EnteredEmphasis == {k \in 1..Len(stack) :
                        stack[k].node.kind = "EmphasisSpan" /\ stack[k].pc # "start"}
EnteredTables   == {k \in 1..Len(stack) :
                        stack[k].node.kind = "Table" /\ stack[k].pc # "start"}

\* the step writeNode takes on a LinkTag with a code destination
AtCodeLink == Running /\ Top.node.kind = "LinkTag" /\ Top.node.dest = "code"
AtUrlLink  == Running /\ Top.node.kind = "LinkTag" /\ Top.node.dest = "url"

\* what a step appended to the writer's buffer
Written == SubSeq(context.writer.buf', Len(context.writer.buf) + 1,
                  Len(context.writer.buf'))
AppendsOnly == /\ Len(context.writer.buf') >= Len(context.writer.buf)
               /\ SubSeq(context.writer.buf', 1, Len(context.writer.buf))
                      = context.writer.buf

UnableToResolveMissing ==
    Yellow("WARNING: Unable to resolve reference \"pkg#Missing\": The member reference \"Missing\" was not found")
UnableToDetermineLinkText == Yellow("WARNING: Unable to determine link text")

(***************************************************************************)
(* C1.  While the children of an EmphasisSpan are rendered, boldRequested  *)
(* and italicRequested are the bold and italic of the innermost enclosing  *)
(* EmphasisSpan; once an EmphasisSpan has returned they are again what     *)
(* they were before it was entered (the enclosing span's, or the initial   *)
(* FALSE outside every span).                                              *)
(***************************************************************************)
C1_EmphasisStackDiscipline ==
    phase = "rendering" =>
        IF EnteredEmphasis = {}
        THEN ~ context.boldRequested /\ ~ context.italicRequested
        ELSE LET span == stack[SetMax(EnteredEmphasis)].node
             IN  /\ context.boldRequested = span.bold
                 /\ context.italicRequested = span.italic

\* a span nested in a span with other flags has returned into the outer one
C1_Witness ==
    /\ Running
    /\ Cardinality(EnteredEmphasis) >= 2
    /\ Top.node.kind = "EmphasisSpan"
    /\ Top.pc = "nodes"
    /\ Top.i = 2
    /\ Top.node.nodes[2].kind = "EmphasisSpan"
    /\ Top.node.nodes[2].bold # Top.node.bold
    /\ Top.node.nodes[2].italic # Top.node.italic

(***************************************************************************)
(* C2.  The columnCount of a Table is max(header cells, or 0 without a     *)
(* header; the longest data row), and every data row is rendered with as   *)
(* many <td> cells as the row has: a short row is not padded.              *)
(***************************************************************************)
C2_ColumnCountAndRowCells ==
    /\ \A k \in EnteredTables :
           stack[k].columnCount = ExpectedColumnCount(stack[k].node)
    /\ phase = "done" =>
           /\ Count(output, "<td>") = Measure(doc, "cells")
           /\ Count(output, "</td>") = Measure(doc, "cells")
           /\ IsFlatTable(doc) =>
                  \* the first row of the text is the header row
                  Tail(TdPerRow(output, 0))
                      = [k \in 1..Len(doc.rows) |-> Len(doc.rows[k])]

\* a table with a header of two cells, an empty row and a row of one cell
C2_Witness ==
    /\ phase = "done"
    /\ doc = Table(TRUE, HeaderCells(2), Rows(<<0, 1>>))
    /\ TdPerRow(output, 0) = <<0, 0, 1>>

\* the header row a table is expected to get: columnCount cells, the header
\* cell's text where the header has one
ExpectedHeaderRow(docTable) ==
    Concat([k \in 1..ExpectedColumnCount(docTable) |->
               <<"<th>">>
               \o (IF docTable.hasHeader /\ k <= Len(docTable.header)
                   THEN docTable.header[k].nodes[1].text ELSE <<>>)
               \o <<"</th>">>])

(***************************************************************************)
(* C3.  Every Table gets its <thead> exactly once, with exactly            *)
(* columnCount <th> cells, header or not; a position without a header cell *)
(* is an empty <th></th>, a position with one holds the cell's content.    *)
(***************************************************************************)
C3_HeaderAlwaysRendered ==
    phase = "done" =>
        /\ Count(output, "<thead>") = Measure(doc, "tables")
        /\ Count(output, "</thead>") = Measure(doc, "tables")
        /\ Count(output, "<th>") = Measure(doc, "columns")
        /\ Count(output, "</th>") = Measure(doc, "columns")
        /\ IsFlatTable(doc) =>
               SubSeq(output, IndexOf(output, "<thead>"), IndexOf(output, "</thead>"))
                   = <<"<thead>", NL, "<tr>", NL>> \o ExpectedHeaderRow(doc)
                         \o <<NL, "</tr>", NL, "</thead>">>

\* no header and a row of two cells: two empty header cells
C3_Witness ==
    /\ phase = "done"
    /\ doc = Table(FALSE, <<>>, Rows(<<2>>))
    /\ Count(output, "<th>") = 2
    /\ Count(output, "<thead>") = 1

(***************************************************************************)
(* C4.  A code destination that the API model does not resolve: the        *)
(* writer is left as it is, exactly one warning is logged, which names the *)
(* reference and the resolver's error message, and the render goes on.     *)
(***************************************************************************)
C4_UnresolvedReference ==
    [][ (AtCodeLink /\ resolveDeclarationReference(Top.node.codeDestination)
                           .resolvedApiItem = NoItem)
        => /\ context' = context
           /\ console' = Append(console, UnableToResolveMissing)
           /\ phase' = "rendering"
           /\ stack' = Return ]_vars

C4_Witness ==
    /\ phase = "done"
    /\ doc = Section(<<PlainText(TextA), LinkTagCode(RefMissing, Defined(TextA)),
                       PlainText(TextB)>>)
    /\ console = <<UnableToResolveMissing>>
    /\ output = <<"a", "b", NL>>

(***************************************************************************)
(* C5.  A code destination that resolves to an item for which              *)
(* onGetFilenameForApiItem returns nothing: the link is dropped silently,  *)
(* whatever its link text: writer unchanged, no warning, render goes on.   *)
(***************************************************************************)
C5_NoFilenameDropsLink ==
    [][ (AtCodeLink
         /\ LET result == resolveDeclarationReference(Top.node.codeDestination)
            IN  /\ result.resolvedApiItem # NoItem
                /\ ~ onGetFilenameForApiItem(result.resolvedApiItem).defined)
        => /\ context' = context
           /\ console' = console
           /\ phase' = "rendering"
           /\ stack' = Return ]_vars

C5_Witness ==
    /\ phase = "done"
    /\ doc = Section(<<PlainText(TextA), LinkTagCode(RefOut, Defined(TextA)),
                       PlainText(TextB)>>)
    /\ console = <<>>
    /\ output = <<"a", "b", NL>>

\* the step is on a code link that resolves and has a filename
AtResolvedLink ==
    /\ AtCodeLink
    /\ LET result == resolveDeclarationReference(Top.node.codeDestination)
       IN  /\ result.resolvedApiItem # NoItem
           /\ onGetFilenameForApiItem(result.resolvedApiItem).defined

DisplayText(docLinkTag) ==
    IF docLinkTag.linkText.defined /\ docLinkTag.linkText.value # <<>>
    THEN docLinkTag.linkText.value
    ELSE getScopedNameWithinPackage(
             resolveDeclarationReference(docLinkTag.codeDestination).resolvedApiItem)

\* nothing written, one 'unable to determine link text' warning
LinkTextWarned ==
    /\ context' = context
    /\ console' = Append(console, UnableToDetermineLinkText)

\* exactly one link to the filename written, no warning
OneLinkWritten(docLinkTag) ==
    /\ AppendsOnly
    /\ Written = <<"[">> \o getEscapedText(CollapseWhitespace(DisplayText(docLinkTag)))
                     \o <<"]", "(">>
                     \o onGetFilenameForApiItem(
                            resolveDeclarationReference(docLinkTag.codeDestination)
                                .resolvedApiItem).value
                     \o <<")">>
    /\ console' = console

(***************************************************************************)
(* C6.  A code destination that resolves, with a filename.  The display    *)
(* text is the link text, or the item's scoped name when there is none.    *)
(***************************************************************************)
\* C6 as stated: a display text that is empty after trimming (empty or
\* whitespace only) writes nothing and warns once; any other display text
\* writes exactly one link.
C6_Original ==
    [][ AtResolvedLink
        => /\ stack' = Return
           /\ IF Trim(DisplayText(Top.node)) = <<>>
              THEN LinkTextWarned
              ELSE OneLinkWritten(Top.node) ]_vars

\* C6 amended: only a display text of length zero writes nothing and warns
\* once; every other display text, whitespace only included, writes exactly
\* one link (its whitespace runs collapsed to single spaces).
C6_EmptyLinkText ==
    [][ AtResolvedLink
        => /\ stack' = Return
           /\ IF Len(DisplayText(Top.node)) = 0
              THEN LinkTextWarned
              ELSE OneLinkWritten(Top.node) ]_vars

\* a link whose text is one space has been written as a link
C6_Witness ==
    /\ phase = "done"
    /\ doc = LinkTagCode(RefFoo, Defined(<<SP>>))
    /\ console = <<>>
    /\ output = <<"[", SP, "]", "(", ".", "/", "F", ")", NL>>

(***************************************************************************)
(* C7.  A URL destination: the display text is the URL whenever the link   *)
(* text is empty (absent, or the empty string), and the link text          *)
(* otherwise; whitespace runs collapsed, one hyperlink to the URL written. *)
(***************************************************************************)
C7_UrlDefaultsWhenEmpty ==
    [][ AtUrlLink
        => LET tag == Top.node
               display == IF tag.linkText.defined /\ tag.linkText.value # <<>>
                          THEN tag.linkText.value
                          ELSE tag.urlDestination
           IN  /\ AppendsOnly
               /\ Written = <<"<a href=\"">> \o tag.urlDestination \o <<"\">">>
                                \o getEscapedText(CollapseWhitespace(display))
                                \o <<"</a>">>
               /\ stack' = Return ]_vars

\* the opening and closing tokens of the heading tags
HeadingTokens ==
    { "<h1 class=\"doc-heading\">", "</h1>", "<h2 class=\"doc-heading\">", "</h2>",
      "<h3 class=\"doc-heading\">", "</h3>", "<h4 class=\"doc-heading\">", "</h4>",
      "<h5 class=\"doc-heading\">", "</h5>", "<h6 class=\"doc-heading\">", "</h6>" }

IsHeadingToken(tok) == tok \in HeadingTokens

ExpectedHeadingTokens(level) ==
    IF level = 1 THEN <<"<h2 class=\"doc-heading\">", "</h2>">>
    ELSE IF level \in {2, 3} THEN <<"<h3 class=\"doc-heading\">", "</h3>">>
    ELSE <<"<h4 class=\"doc-heading\">", "</h4>">>

(***************************************************************************)
(* C8.  The tag of a Heading is a function of its level: 1 gives h2, 2 and *)
(* 3 give h3, every other level h4; the opening and the closing tag are    *)
(* the same tag, never h1.                                                 *)
(***************************************************************************)
C8_HeadingTag ==
    [][ (Running /\ Top.node.kind = "Heading")
        => /\ AppendsOnly
           /\ SelectSeq(Written, IsHeadingToken) = ExpectedHeadingTokens(Top.node.level)
           /\ stack' = Return ]_vars

\* a heading of level 5 came out as h4
C8_Witness ==
    /\ phase = "done"
    /\ doc = Heading(5, TextA)
    /\ output = <<"<h4 class=\"doc-heading\">", "a", "</h4>", NL, NL>>

(***************************************************************************)
(* C9.  While any descendant of a Table is rendered, insideTable is TRUE:  *)
(* the flag is set for as long as the outermost enclosing table lasts, and *)
(* FALSE only outside every table.                                         *)
(***************************************************************************)
C9_InsideTableWhileInTable ==
    phase = "rendering" => (context.insideTable <=> EnteredTables # {})

(***************************************************************************)
(* C10.  A SoftBreak writes "<br />" exactly when the last character       *)
(* written is not whitespace; after whitespace, or with nothing written    *)
(* yet, it leaves the writer as it is.  So no "<br />" follows whitespace. *)
(***************************************************************************)
C10_SoftBreak ==
    [][ (Running /\ Top.node.kind = "SoftBreak")
        => LET buf == context.writer.buf
               afterText == buf # <<>> /\ buf[Len(buf)] \notin WhiteSpace
               buf2 == context.writer.buf'
           IN  /\ afterText => buf2 = Append(buf, "<br />")
               /\ ~ afterText => context' = context
               /\ \A k \in 1..Len(buf2) :
                      buf2[k] = "<br />" => k > 1 /\ buf2[k - 1] \notin WhiteSpace
               /\ stack' = Return ]_vars

\* no break at the start of a line, one break after the text
C10_Witness ==
    /\ phase = "done"
    /\ doc = NoteBox(Section(<<SoftBreak, PlainText(TextA), SoftBreak>>))
    /\ output = <<SP, "<pre>", NL, SP, "a", "<br />", NL, SP, "</pre>", NL, NL>>

====
